---- MODULE Spec2Model ----
(***************************************************************************)
(* Model of server.js: a Node HTTP server that keeps a click counter in    *)
(* the file touchcount.json.                                               *)
(*                                                                         *)
(* The file is read with fsp.readFile and written with fsp.writeFile.      *)
(* fsp.writeFile is not atomic: it opens the file with flag 'w' (which     *)
(* truncates it), then writes the data at offset 0 of its own descriptor,  *)
(* then closes.  Each of these is a separate thread-pool operation, so     *)
(* another request's readFile or writeFile can run between them.  The      *)
(* model keeps that granularity: Open and Write are separate steps.        *)
(*                                                                         *)
(* Numbers are modelled as integers; the decimal length of a number is     *)
(* kept because it decides what two overlapping writes leave in the file.  *)
(***************************************************************************)
EXTENDS Integers, Sequences, FiniteSets, TLC

\* ------------------------------------------------------------------ bounds
NumReq == 2        \* requests that can be in flight at once
MaxRequests == 3   \* requests received in one behaviour
MaxStarts == 2     \* times the process is started in one behaviour
MaxNegative == 2   \* the smallest count found in the file before the first
                   \* start is -MaxNegative
MaxInit == 1       \* largest count found in the file before the first start

Slots == 1..NumReq

\* ------------------------------------------------------- the data file
\* A file content is [kind, count, len]:
\*   absent     no file at DATA_PATH
\*   empty      zero bytes
\*   malformed  text that JSON.parse rejects
\*   null       the JSON text null (parses, but obj.count throws)
\*   nocount    a JSON value whose count property is not a number
\*   valid      a JSON object with a numeric count
Absent == [kind |-> "absent", count |-> 0, len |-> 0]
Empty == [kind |-> "empty", count |-> 0, len |-> 0]
Malformed(l) == [kind |-> "malformed", count |-> 0, len |-> l]
NullJson == [kind |-> "null", count |-> 0, len |-> 4]
EmptyObject == [kind |-> "nocount", count |-> 0, len |-> 2]

\* characters of `{\n  "count": ` and `\n}` around the number
PrettyOverhead == 15

RECURSIVE NumLen(_)
\* length of String(n) for an integer n
NumLen(n) ==
  IF n < 0 THEN 1 + NumLen(0 - n)
  ELSE IF n < 10 THEN 1 ELSE 1 + NumLen(n \div 10)

\* JSON.stringify({ count: n }, null, 2)
Stringify(n) == [kind |-> "valid", count |-> n, len |-> PrettyOverhead + NumLen(n)]

\* a write of `data` at offset 0 of a file that currently holds `existing`:
\* bytes of `existing` beyond the end of `data` stay in the file
Overlay(existing, data) ==
  IF existing.len > data.len THEN Malformed(existing.len) ELSE data

InitialFiles ==
  {Absent, Empty, Malformed(1), NullJson, EmptyObject}
    \cup {Stringify(c) : c \in (0 - MaxNegative)..MaxInit}

\* ------------------------------------------------------------ readCount
\* `raw || '{}'`
OrEmptyObject(raw) == IF raw.kind = "empty" THEN EmptyObject ELSE raw

\* JSON.parse(text): throws on text that is not JSON
JSONparse(text) ==
  IF text.kind \in {"malformed", "empty", "absent"}
  THEN [throws |-> TRUE, value |-> text]
  ELSE [throws |-> FALSE, value |-> text]

\* `typeof obj.count === 'number' ? obj.count : 0`; reading a property of
\* null throws
CountOf(obj) ==
  IF obj.kind = "null" THEN [throws |-> TRUE, n |-> 0]
  ELSE IF obj.kind = "valid" THEN [throws |-> FALSE, n |-> obj.count]
  ELSE [throws |-> FALSE, n |-> 0]

\* the try block of readCount; rd is the outcome of fsp.readFile
ReadCountTry(rd) ==
  IF rd.err THEN [throws |-> TRUE, n |-> 0]
  ELSE LET p == JSONparse(OrEmptyObject(rd.raw))
       IN IF p.throws THEN [throws |-> TRUE, n |-> 0] ELSE CountOf(p.value)

\* readCount without its catch: every failure reaches the request handler
ReadCountNoCatch(rd) == ReadCountTry(rd)

\* readCount: any failure in the try block yields 0
readCount(rd) ==
  LET t == ReadCountTry(rd)
  IN IF t.throws THEN [throws |-> FALSE, n |-> 0] ELSE t

\* ------------------------------------------------------- ensureDataFile
\* ensureDataFile that never creates the file
EnsureNoCreate(f, outcome) == [file |-> f, ok |-> TRUE]

\* ensureDataFile: fsp.access fails only for an absent file here; then the
\* file is written, and a failure of that write rejects the promise
ensureDataFile(f, outcome) ==
  IF f.kind # "absent" THEN [file |-> f, ok |-> TRUE]
  ELSE IF outcome = "ok" THEN [file |-> Stringify(0), ok |-> TRUE]
  ELSE IF outcome = "openfail" THEN [file |-> Absent, ok |-> FALSE]
  ELSE [file |-> Empty, ok |-> FALSE]

\* ------------------------------------------------------------- requests
Methods == {"GET", "POST", "OPTIONS", "PUT"}

RootUrl == <<"/">>
CountUrl == <<"/", "api", "/", "count">>
IncrementUrl == <<"/", "api", "/", "increment">>
Urls ==
  {RootUrl, CountUrl, IncrementUrl,
   <<"/", "api", "/", "count", "?", "x=1">>,
   <<"/", "api", "/", "increment", "/">>}

RECURSIVE Pathname(_)
\* url.parse(req.url, true).pathname: the part before the query string
Pathname(u) ==
  IF u = << >> \/ Head(u) = "?" THEN << >>
  ELSE <<Head(u)>> \o Pathname(Tail(u))

NoBody == [type |-> "empty", count |-> 0, error |-> ""]
HTML == [type |-> "html", count |-> 0, error |-> ""]
CountBody(n) == [type |-> "count", count |-> n, error |-> ""]
ErrorBody(e) == [type |-> "error", count |-> 0, error |-> e]

\* routing that looks at the pathname only
RouteNoMethod(method, path) ==
  IF method = "OPTIONS" THEN "options"
  ELSE IF path = RootUrl THEN "page"
  ELSE IF path = CountUrl THEN "count"
  ELSE IF path = IncrementUrl THEN "increment"
  ELSE "notfound"

\* the chain of tests at the head of the request handler
Route(method, path) ==
  IF method = "OPTIONS" THEN "options"
  ELSE IF path = RootUrl /\ method = "GET" THEN "page"
  ELSE IF path = CountUrl /\ method = "GET" THEN "count"
  ELSE IF path = IncrementUrl /\ method = "POST" THEN "increment"
  ELSE "notfound"

\* the responses sent without touching the file
Immediate(route) ==
  IF route = "options" THEN [status |-> 204, body |-> NoBody]
  ELSE IF route = "page" THEN [status |-> 200, body |-> HTML]
  ELSE [status |-> 404, body |-> ErrorBody("Not found")]

\* the catch block of the request handler
ServerError == [status |-> 500, body |-> ErrorBody("Server error")]

\* a handler that answers 200 whatever writeCount did
AfterWriteIgnoreError(werr, n) == [status |-> 200, body |-> CountBody(n)]

\* the end of the increment route: writeCount's rejection reaches the catch
AfterWrite(werr, n) ==
  IF werr THEN ServerError ELSE [status |-> 200, body |-> CountBody(n)]

\* an increment that persists what it read
IncrementNoAdd(n) == n

\* `(await readCount()) + 1`
Increment(n) == n + 1

IdleReq ==
  [pc |-> "idle", method |-> "GET", url |-> RootUrl, route |-> "page",
   raw |-> Absent, readErr |-> FALSE, writeErr |-> FALSE, n |-> 0,
   held |-> Absent, k |-> 0, status |-> 0, body |-> NoBody]

VARIABLES
  file,      \* content of DATA_PATH
  phase,     \* "stopped" or "listening"
  req,       \* the request handled in each slot
  received,  \* requests received so far
  starts,    \* starts of the process so far
  fresh,     \* the current run found no data file when it started
  c0,        \* what readCount would have returned when the current run started
  posts,     \* increment requests received in the current run
  gets,      \* GET /api/count requests received in the current run
  overlap,   \* two file-touching requests were in flight together in this run
  rfail,     \* a readFile failed in this run
  wfail,     \* a writeFile failed in this run
  lastPost   \* count returned by the latest increment answered with 200

vars ==
  <<file, phase, req, received, starts, fresh, c0, posts, gets, overlap,
    rfail, wfail, lastPost>>

InFlight(r) == req[r].pc \in {"read", "open", "write"}
Quiescent == \A r \in Slots : ~InFlight(r)

\* a new request takes the first slot that handles no request
FreeSlot(r) == ~InFlight(r) /\ \A q \in Slots : q < r => InFlight(q)

Init ==
  /\ file \in InitialFiles
  /\ phase = "stopped"
  /\ req = [r \in Slots |-> IdleReq]
  /\ received = 0
  /\ starts = 0
  /\ fresh = FALSE
  /\ c0 = 0
  /\ posts = 0
  /\ gets = 0
  /\ overlap = FALSE
  /\ rfail = FALSE
  /\ wfail = FALSE
  /\ lastPost = [some |-> FALSE, count |-> 0]

\* `ensureDataFile().then(() => server.listen(...))`
Start ==
  /\ phase = "stopped"
  /\ starts < MaxStarts
  /\ \E outcome \in {"ok", "openfail", "writefail"} :
       LET e == ensureDataFile(file, outcome)
       IN /\ file' = e.file
          /\ phase' = IF e.ok THEN "listening" ELSE "stopped"
          /\ c0' = readCount([err |-> FALSE, raw |-> e.file]).n
  /\ fresh' = (file.kind = "absent")
  /\ starts' = starts + 1
  /\ posts' = 0
  /\ gets' = 0
  /\ overlap' = FALSE
  /\ rfail' = FALSE
  /\ wfail' = FALSE
  /\ req' = [r \in Slots |-> IdleReq]
  /\ UNCHANGED <<received, lastPost>>

\* the process ends while no request is being handled
Stop ==
  /\ phase = "listening"
  /\ Quiescent
  /\ phase' = "stopped"
  /\ req' = [r \in Slots |-> IdleReq]
  /\ UNCHANGED <<file, received, starts, fresh, c0, posts, gets, overlap,
                 rfail, wfail, lastPost>>

\* the handler runs up to its first await
Receive(r, m, u) ==
  /\ phase = "listening"
  /\ FreeSlot(r)
  /\ received < MaxRequests
  /\ received' = received + 1
  /\ LET route == Route(m, Pathname(u))
         touches == route \in {"count", "increment"}
         isPost == route = "increment"
         base == [IdleReq EXCEPT !.method = m, !.url = u, !.route = route]
     IN /\ req' = [req EXCEPT ![r] =
                     IF touches
                     THEN [base EXCEPT !.pc = "read",
                                       !.k = IF isPost THEN posts + 1
                                             ELSE gets + 1]
                     ELSE [base EXCEPT !.pc = "done",
                                       !.status = Immediate(route).status,
                                       !.body = Immediate(route).body]]
        /\ posts' = IF isPost THEN posts + 1 ELSE posts
        /\ gets' = IF route = "count" THEN gets + 1 ELSE gets
        /\ overlap' = (overlap \/ (touches /\ \E q \in Slots : InFlight(q)))
  /\ UNCHANGED <<file, phase, starts, fresh, c0, rfail, wfail, lastPost>>

\* `await readCount()` completes and the handler runs to its next await
Read(r, err) ==
  /\ phase = "listening"
  /\ req[r].pc = "read"
  /\ LET rd == [err |-> err, raw |-> IF err THEN Absent ELSE file]
         rc == readCount(rd)
         seen == [req[r] EXCEPT !.raw = rd.raw, !.readErr = err]
     IN req' = [req EXCEPT ![r] =
                  IF rc.throws
                  THEN [seen EXCEPT !.pc = "done",
                                    !.status = ServerError.status,
                                    !.body = ServerError.body]
                  ELSE IF req[r].route = "count"
                  THEN [seen EXCEPT !.pc = "done", !.n = rc.n,
                                    !.status = 200, !.body = CountBody(rc.n)]
                  ELSE [seen EXCEPT !.pc = "open", !.n = Increment(rc.n)]]
  /\ rfail' = (rfail \/ err)
  /\ UNCHANGED <<file, phase, received, starts, fresh, c0, posts, gets,
                 overlap, wfail, lastPost>>

\* writeCount, first half: fsp.writeFile opens DATA_PATH with flag 'w'
Open(r, err) ==
  /\ phase = "listening"
  /\ req[r].pc = "open"
  /\ IF err
     THEN /\ req' = [req EXCEPT ![r] =
                       [@ EXCEPT !.pc = "done", !.writeErr = TRUE,
                                 !.status = AfterWrite(TRUE, req[r].n).status,
                                 !.body = AfterWrite(TRUE, req[r].n).body]]
          /\ file' = file
     ELSE /\ req' = [req EXCEPT ![r] = [@ EXCEPT !.pc = "write", !.held = file]]
          /\ file' = Empty
  /\ wfail' = (wfail \/ err)
  /\ UNCHANGED <<phase, received, starts, fresh, c0, posts, gets, overlap,
                 rfail, lastPost>>

\* writeCount, second half: the data is written and the handler answers
Write(r, err) ==
  /\ phase = "listening"
  /\ req[r].pc = "write"
  /\ LET resp == AfterWrite(err, req[r].n)
     IN /\ req' = [req EXCEPT ![r] =
                     [@ EXCEPT !.pc = "done", !.writeErr = err,
                               !.status = resp.status, !.body = resp.body]]
        /\ lastPost' = IF resp.status = 200
                       THEN [some |-> TRUE, count |-> resp.body.count]
                       ELSE lastPost
  /\ file' = IF err THEN file ELSE Overlay(file, Stringify(req[r].n))
  /\ wfail' = (wfail \/ err)
  /\ UNCHANGED <<phase, received, starts, fresh, c0, posts, gets, overlap,
                 rfail>>

Next ==
  \/ Start
  \/ Stop
  \/ \E r \in Slots, m \in Methods, u \in Urls : Receive(r, m, u)
  \/ \E r \in Slots, err \in BOOLEAN : Read(r, err)
  \/ \E r \in Slots, err \in BOOLEAN : Open(r, err)
  \/ \E r \in Slots, err \in BOOLEAN : Write(r, err)

Spec == Init /\ [][Next]_vars

\* --------------------------------------------------------------- claims
Done(r) == req[r].pc = "done"
Answered(r, route) == Done(r) /\ req[r].route = route

\* what readCount returns for the file as it is now
PersistedCount == readCount([err |-> FALSE, raw |-> file]).n

C2_Monotonic ==
  (phase = "listening" /\ ~rfail /\ ~wfail) =>
    \A r \in Slots :
      (Answered(r, "increment") /\ req[r].status = 200
         /\ req[r].held.kind = "valid") =>
        req[r].n >= req[r].held.count

\* C3: once k >= 1 increments of a run have all been answered 200, with no
\* I/O failure in the run, the file holds a count between c + 1 and c + k.
C3_Bounds ==
  (phase = "listening" /\ Quiescent /\ ~rfail /\ ~wfail /\ posts >= 1) =>
    /\ file.kind = "valid"
    /\ file.count >= c0 + 1
    /\ file.count <= c0 + posts

\* the lost update of C3: two overlapping increments both answered c + 1
C3_LostUpdate ==
  /\ phase = "listening" /\ Quiescent /\ posts = 2 /\ ~rfail /\ ~wfail
  /\ file = Stringify(c0 + 1)
  /\ \A r \in Slots : Answered(r, "increment") /\ req[r].status = 200
                        /\ req[r].body = CountBody(c0 + 1)

\* C4: while the server is listening the data file holds a JSON object with
\* a numeric count.
C4_FileAlwaysValid == phase = "listening" => file.kind = "valid"

KnownRoutes ==
  {<<"GET", RootUrl>>, <<"GET", CountUrl>>, <<"POST", IncrementUrl>>}

NotFound(r) ==
  req[r].status = 404 /\ req[r].body = ErrorBody("Not found")

\* C5 (as stated): every answered request whose method and path are not one
\* of the three routes got 404 {"error":"Not found"}.
C5_Original ==
  \A r \in Slots :
    (Done(r) /\ <<req[r].method, Pathname(req[r].url)>> \notin KnownRoutes)
      => NotFound(r)

\* C5 (amended): every answered request whose method is not OPTIONS and whose
\* method and path are not one of the three routes got 404
\* {"error":"Not found"}; an OPTIONS request got 204 with no body.
C5_NotFound ==
  \A r \in Slots : Done(r) =>
    /\ (req[r].method # "OPTIONS"
          /\ <<req[r].method, Pathname(req[r].url)>> \notin KnownRoutes)
         => NotFound(r)
    /\ req[r].method = "OPTIONS" => (req[r].status = 204 /\ req[r].body = NoBody)

C5_Witness ==
  \E r \in Slots :
    /\ Done(r) /\ req[r].method = "PUT" /\ req[r].url = CountUrl
    /\ NotFound(r)

\* C6: an increment whose write failed was answered 500
\* {"error":"Server error"}; a 500 only ever follows a failed write; a
\* request whose read failed went on with count 0.
C6_Errors ==
  \A r \in Slots :
    /\ (Done(r) /\ req[r].writeErr) =>
         (req[r].status = 500 /\ req[r].body = ErrorBody("Server error"))
    /\ (Done(r) /\ req[r].status = 500) => req[r].writeErr
    /\ (Answered(r, "count") /\ req[r].readErr) =>
         (req[r].status = 200 /\ req[r].body = CountBody(0))
    /\ (req[r].route = "increment" /\ req[r].readErr
          /\ req[r].pc \in {"open", "write", "done"}) => req[r].n = 1
    /\ (Answered(r, "increment") /\ req[r].readErr /\ ~req[r].writeErr) =>
         (req[r].status = 200 /\ req[r].body = CountBody(1))

C6_Witness ==
  /\ \E r \in Slots : Answered(r, "increment") /\ req[r].writeErr
                        /\ req[r].status = 500
  /\ \E r \in Slots : Answered(r, "count") /\ req[r].readErr
                        /\ req[r].status = 200

Unreadable(r) ==
  \/ req[r].readErr
  \/ req[r].raw.kind \in {"absent", "empty", "malformed", "null", "nocount"}

\* C7: a GET /api/count that found the file missing, empty, malformed or
\* without a numeric count was answered 200 {"count":0}.
C7_CorruptReadsZero ==
  \A r \in Slots :
    (Answered(r, "count") /\ Unreadable(r)) =>
      (req[r].status = 200 /\ req[r].body = CountBody(0))

C7_Witness ==
  \E r \in Slots :
    /\ Answered(r, "count") /\ ~req[r].readErr
    /\ req[r].raw.kind = "malformed"
    /\ req[r].status = 200 /\ req[r].body = CountBody(0)

\* C8 (as stated): in a run that found no data file, no request is served
\* while the file is absent, and once the first GET /api/count is answered
\* it returned count 0 and the file holds count 0.
C8_Original ==
  /\ phase = "listening" => file.kind # "absent"
  /\ (phase = "listening" /\ fresh) =>
       \A r \in Slots : (Answered(r, "count") /\ req[r].k = 1) =>
         /\ req[r].status = 200 /\ req[r].body = CountBody(0)
         /\ file = Stringify(0)

\* C8 (amended): in a run that found no data file, no request is served
\* while the file is absent, and as long as no POST /api/increment has been
\* received every answered GET /api/count returned count 0 and the file
\* holds count 0.
C8_FreshStart ==
  /\ phase = "listening" => file.kind # "absent"
  /\ (phase = "listening" /\ fresh /\ posts = 0) =>
       /\ file = Stringify(0)
       /\ \A r \in Slots : Answered(r, "count") =>
            (req[r].status = 200 /\ req[r].body = CountBody(0))

C8_Witness ==
  /\ phase = "listening" /\ fresh /\ posts = 0 /\ file = Stringify(0)
  /\ \E r \in Slots : Answered(r, "count") /\ req[r].k = 1 /\ ~req[r].readErr
                        /\ req[r].body = CountBody(0)

\* C9: after a restart, a GET /api/count whose read succeeded and that was
\* answered before any increment of the new run returned the count of the
\* latest increment answered 200.
C9_SurvivesRestart ==
  (phase = "listening" /\ starts >= 2 /\ posts = 0 /\ lastPost.some) =>
    \A r \in Slots : (Answered(r, "count") /\ ~req[r].readErr) =>
      req[r].body = CountBody(lastPost.count)

\* C10: every count returned, and every count an increment is about to
\* write or has written, is non-negative.
C10_NonNegative ==
  \A r \in Slots :
    /\ (Done(r) /\ req[r].body.type = "count") => req[r].body.count >= 0
    /\ (req[r].route = "increment" /\ req[r].pc \in {"open", "write", "done"})
         => req[r].n >= 0
====
